---- MODULE Spec2Model ----
(***************************************************************************)
(* A model of the e-boost extraction core (src/extraction_gym_cpp): the    *)
(* e-graph data model, the greedy DAG extractor, the extraction result     *)
(* with its validators and cost metrics, and the partitioner.              *)
(*                                                                         *)
(* Containers.  A tsl::ordered_map is a sequence of [k, v] entries in      *)
(* insertion order; a std::unordered_map is a function; a std::vector and  *)
(* a std::deque are sequences.  Costs are naturals; +infinity is the       *)
(* value COST_INFINITY, larger than every sum the model can form.          *)
(***************************************************************************)
EXTENDS Integers, Sequences, FiniteSets, TLC

VARIABLES
    pc,                 \* position of the running operation
    egraph,             \* EGraph: [nodes, root_eclasses]
    analysis_pending,   \* UniqueQueue<NodeId> of extract
    costs,              \* unordered_map<ClassId, CostSet> of extract
    choices,            \* ExtractionResult::choices
    ret,                \* what the last operation returned or raised
    part                \* the locals of egraph_partition and the files it wrote

vars == <<pc, egraph, analysis_pending, costs, choices, ret, part>>

----------------------------------------------------------------------------
(* Bounds of the model. *)

NumClasses == 3
MaxCost == 1
MaxArity == 2

COST_INFINITY == 1000000

MaxExtra == 1

ClassIds == 1..NumClasses

----------------------------------------------------------------------------
(* Generic helpers. *)

Range(s) == {s[i] : i \in DOMAIN s}

Min(S) == CHOOSE x \in S : \A y \in S : x <= y

RECURSIVE SetToSortedSeq(_)
SetToSortedSeq(S) ==
    IF S = {} THEN <<>> ELSE <<Min(S)>> \o SetToSortedSeq(S \ {Min(S)})

\* The totals of the extractor stay below 2^MantissaBits for the costs and
\* class counts of its inputs, where the sums of doubles are exact: they are
\* written with the plain +.
RECURSIVE SumSeq(_)
SumSeq(s) == IF s = <<>> THEN 0 ELSE Head(s) + SumSeq(Tail(s))

RECURSIVE SumFun(_)
SumFun(f) ==
    IF DOMAIN f = {} THEN 0
    ELSE LET k == CHOOSE x \in DOMAIN f : TRUE
         IN f[k] + SumFun([x \in DOMAIN f \ {k} |-> f[x]])

RECURSIVE Flatten(_)
Flatten(ss) == IF ss = <<>> THEN <<>> ELSE Head(ss) \o Flatten(Tail(ss))

SeqsUpTo(S, n) == UNION {[1..k -> S] : k \in 0..n}

----------------------------------------------------------------------------
(* tsl::ordered_map as a sequence of [k, v] entries. *)

MapKeys(m) == {m[i].k : i \in DOMAIN m}

MapHas(m, key) == key \in MapKeys(m)

MapGet(m, key) == m[CHOOSE i \in DOMAIN m : m[i].k = key].v

\* insert(): keeps the existing entry when the key is present
MapInsert(m, key, val) ==
    IF MapHas(m, key) THEN m ELSE Append(m, [k |-> key, v |-> val])

\* operator[] assignment: replaces the value in place, or appends
MapPut(m, key, val) ==
    IF MapHas(m, key)
    THEN [i \in DOMAIN m |-> IF m[i].k = key THEN [k |-> key, v |-> val] ELSE m[i]]
    ELSE Append(m, [k |-> key, v |-> val])

----------------------------------------------------------------------------
(* The graph model (egraph_serialize.hpp). *)

NodeOf(c, cost, children) == [eclass |-> c, cost |-> cost, children |-> children]

is_leaf(node) == node.children = <<>>

HasNode(g, nid) ==
    /\ MapHas(g.nodes, nid[1])
    /\ MapHas(MapGet(g.nodes, nid[1]), nid)

\* EGraph::operator[](NodeId); callers guard with HasNode
NodeAt(g, nid) == MapGet(MapGet(g.nodes, nid[1]), nid)

nid_to_cid(g, nid) == NodeAt(g, nid).eclass

\* all NodeIds in the iteration order of the nested map
AllNodeIds(g) ==
    Flatten([i \in DOMAIN g.nodes |->
                [j \in DOMAIN g.nodes[i].v |-> g.nodes[i].v[j].k]])

RECURSIVE GroupByClass(_, _, _)
GroupByClass(g, ids, cls) ==
    IF ids = <<>> THEN cls
    ELSE LET nid == Head(ids)
             cid == NodeAt(g, nid).eclass
             old == IF MapHas(cls, cid) THEN MapGet(cls, cid) ELSE <<>>
         IN GroupByClass(g, Tail(ids), MapPut(cls, cid, Append(old, nid)))

\* EGraph::classes(): ClassId -> the NodeIds whose node declares that class
Classes(g) == GroupByClass(g, AllNodeIds(g), <<>>)

----------------------------------------------------------------------------
(* The greedy DAG extractor (faster_greedy_dag.hpp). *)

\* UniqueQueue::insert
QueueInsert(q, t) == IF t \in Range(q) THEN q ELSE Append(q, t)

\* UniqueQueue::extend
RECURSIVE QueueExtend(_, _)
QueueExtend(q, ts) ==
    IF ts = <<>> THEN q ELSE QueueExtend(QueueInsert(q, Head(ts)), Tail(ts))

\* the NodeIds of the class grouping, class by class
ClassNodeIds(g) ==
    LET cls == Classes(g) IN Flatten([i \in DOMAIN cls |-> cls[i].v])

\* one push_back of the node per occurrence of class c among its children
ParentEntries(g, nid, c) ==
    LET ch == NodeAt(g, nid).children
    IN Flatten([i \in DOMAIN ch |-> IF ch[i] = c THEN <<nid>> ELSE <<>>])

\* mutant: no parent is recorded
Parents_None(g, c) == <<>>

\* parents[c] as built by extract
Parents(g, c) ==
    LET ids == ClassNodeIds(g)
    IN Flatten([i \in DOMAIN ids |-> ParentEntries(g, ids[i], c)])

\* mutant: only the first leaf is enqueued
LeafSeed_FirstOnly(g) ==
    LET leaves == SelectSeq(ClassNodeIds(g), LAMBDA n : is_leaf(NodeAt(g, n)))
    IN IF leaves = <<>> THEN <<>> ELSE <<Head(leaves)>>

\* the leaves, in the order extract enqueues them
LeafSeed(g) ==
    LET ids == ClassNodeIds(g)
    IN QueueExtend(<<>>, Flatten([i \in DOMAIN ids |->
            IF is_leaf(NodeAt(g, ids[i])) THEN <<ids[i]>> ELSE <<>>]))

\* std::sort followed by std::unique/erase
SortUnique(children) == SetToSortedSeq(Range(children))

\* the child class whose recorded map is largest (first such in sorted order)
RECURSIVE IdOfBiggest(_, _, _, _)
IdOfBiggest(cc, cs, max_size, best) ==
    IF cc = <<>> THEN best
    ELSE LET size == IF Head(cc) \in DOMAIN cs
                     THEN Cardinality(DOMAIN cs[Head(cc)].costs) ELSE 0
         IN IF Head(cc) \in DOMAIN cs /\ size > max_size
            THEN IdOfBiggest(Tail(cc), cs, size, Head(cc))
            ELSE IdOfBiggest(Tail(cc), cs, max_size, best)

\* result_map.insert(pair) for every pair of m: present keys are kept
MergeInto(result_map, m) ==
    [x \in DOMAIN result_map \cup DOMAIN m |->
        IF x \in DOMAIN result_map THEN result_map[x] ELSE m[x]]

RECURSIVE MergeChildren(_, _, _, _)
MergeChildren(result_map, cc, cs, biggest) ==
    IF cc = <<>> THEN result_map
    ELSE IF Head(cc) = biggest \/ Head(cc) \notin DOMAIN cs
         THEN MergeChildren(result_map, Tail(cc), cs, biggest)
         ELSE MergeChildren(MergeInto(result_map, cs[Head(cc)].costs),
                            Tail(cc), cs, biggest)

\* mutant: the total of a cost set is not recorded
NewCostSet_ZeroTotal(m, total, choice) == [costs |-> m, total |-> 0, choice |-> choice]

NewCostSet(m, total, choice) == [costs |-> m, total |-> total, choice |-> choice]

\* the pre-filter of calculate_cost_set: own class among the children, or a
\* single child class that cannot beat best_cost
Prefilter(cid, node, cc, first_total, best_cost) ==
    \/ cid \in Range(cc)
    \/ (Len(cc) = 1 /\ node.cost + first_total > best_cost)

\* mutant: the check after the merge is dropped
AlreadyContains_Dropped(result_map, cid) == FALSE

\* the check made after the merge: own class already in the merged map
AlreadyContains(result_map, cid) == cid \in DOMAIN result_map

calculate_cost_set(g, node_id, cs, best_cost) ==
    LET node == NodeAt(g, node_id)
        cid  == nid_to_cid(g, node_id)
        cc   == SortUnique(node.children)
    IN IF node.children = <<>>
       THEN NewCostSet(cid :> node.cost, node.cost, node_id)
       ELSE IF cc[1] \notin DOMAIN cs
       THEN NewCostSet(<<>>, COST_INFINITY, node_id)
       ELSE IF Prefilter(cid, node, cc, cs[cc[1]].total, best_cost)
       THEN NewCostSet(<<>>, COST_INFINITY, node_id)
       ELSE LET biggest == IdOfBiggest(cc, cs, 0, cc[1])
                start   == IF biggest \in DOMAIN cs THEN cs[biggest].costs ELSE <<>>
                merged  == MergeChildren(start, cc, cs, biggest)
                already == AlreadyContains(merged, cid)
                rm      == [x \in DOMAIN merged \cup {cid} |->
                               IF x = cid THEN node.cost ELSE merged[x]]
            IN NewCostSet(rm, IF already THEN COST_INFINITY ELSE SumFun(rm), node_id)

\* mutant: only the first child is tested
AllChildrenInCosts_FirstOnly(node, cs) ==
    node.children = <<>> \/ node.children[1] \in DOMAIN cs

\* the loop's test that every child class has a recorded cost set
AllChildrenInCosts(node, cs) == \A i \in DOMAIN node.children : node.children[i] \in DOMAIN cs

\* mutant: the recorded total is not read
PrevCost_Unread(cs, class_id) == COST_INFINITY

PrevCost(cs, class_id) == IF class_id \in DOMAIN cs THEN cs[class_id].total ELSE COST_INFINITY

\* mutant: an equal total is accepted too
Improves_NonStrict(cost_set, prev_cost) == cost_set.total <= prev_cost

\* the loop's acceptance test
Improves(cost_set, prev_cost) == cost_set.total < prev_cost

\* ExtractionResult::choose
choose(ch, class_id, node_id) == MapInsert(ch, class_id, node_id)

RECURSIVE ChooseAll(_, _, _)
ChooseAll(ch, keys, cs) ==
    IF keys = <<>> THEN ch
    ELSE ChooseAll(choose(ch, Head(keys), cs[Head(keys)].choice), Tail(keys), cs)

\* extract, lines 69-97: parents and the seeded worklist
ExtractBegin ==
    /\ pc = "extract"
    /\ analysis_pending' = LeafSeed(egraph)
    /\ pc' = "loop"
    /\ UNCHANGED <<egraph, costs, choices, ret, part>>

\* extract, lines 104-142: one iteration of the worklist loop
ExtractStep ==
    /\ pc = "loop"
    /\ analysis_pending # <<>>
    /\ LET node_id  == Head(analysis_pending)
           rest     == Tail(analysis_pending)
           class_id == nid_to_cid(egraph, node_id)
           node     == NodeAt(egraph, node_id)
           prev     == PrevCost(costs, class_id)
           cost_set == calculate_cost_set(egraph, node_id, costs, prev)
       IN IF ~AllChildrenInCosts(node, costs)
          THEN /\ analysis_pending' = rest
               /\ UNCHANGED costs
          ELSE IF Improves(cost_set, prev)
          THEN /\ costs' = (class_id :> cost_set) @@ costs
               /\ analysis_pending' = QueueExtend(rest, Parents(egraph, class_id))
          ELSE /\ analysis_pending' = rest
               /\ UNCHANGED costs
    /\ UNCHANGED <<pc, egraph, choices, ret, part>>

\* extract, lines 144-149: the recorded choices become the result
ExtractFinish ==
    /\ pc = "loop"
    /\ analysis_pending = <<>>
    /\ choices' = ChooseAll(<<>>, SetToSortedSeq(DOMAIN costs), costs)
    /\ pc' = "extracted"
    /\ UNCHANGED <<egraph, analysis_pending, costs, ret, part>>

----------------------------------------------------------------------------
(* Input descriptions.  from_json (egraph_serialize.hpp:331-345) reads the  *)
(* classes and, within a class, the nodes in the order of their keys, files *)
(* each node under NodeId (class, index) and takes its declared class from  *)
(* the description; in a valid description that is the class it is filed    *)
(* under.                                                                   *)

ChildLists == SeqsUpTo(ClassIds, MaxArity)

Shapes == [cost : 0..MaxCost, children : ChildLists]

\* rows[c]: the nodes of class c, as (cost, children) shapes
InnerMap(c, row) ==
    [j \in DOMAIN row |-> [k |-> <<c, j>>, v |-> NodeOf(c, row[j].cost, row[j].children)]]

GraphOf(rows, roots) ==
    [nodes |-> [c \in DOMAIN rows |-> [k |-> c, v |-> InnerMap(c, rows[c])]],
     root_eclasses |-> roots]

\* the sequences of at most n further (class, shape) nodes
Extras(n) == SeqsUpTo(ClassIds \X Shapes, n)

\* the shapes that the extras add to class c, in order
RECURSIVE ExtraRow(_, _)
ExtraRow(extra, c) ==
    IF extra = <<>> THEN <<>>
    ELSE (IF Head(extra)[1] = c THEN <<Head(extra)[2]>> ELSE <<>>) \o ExtraRow(Tail(extra), c)

\* every class has a first node; the extras follow it in their class
RowsOf(base, extra) == [c \in ClassIds |-> <<base[c]>> \o ExtraRow(extra, c)]

\* the shapes whose child list is strictly increasing
IncreasingShapes == {sh \in Shapes : SortUnique(sh.children) = sh.children}

\* The graphs of NumClasses classes with at most MaxExtra nodes beyond the
\* first of their class.  A first node lists its children in increasing order
\* (extract reads a child list only through SortUnique and through its parent
\* entries, which the unique queue dedups); a further node lists them in any
\* order, repeats included.
InitExtract ==
    /\ pc = "extract"
    /\ \E base \in [ClassIds -> IncreasingShapes], extra \in Extras(MaxExtra) :
          egraph = GraphOf(RowsOf(base, extra), <<1>>)
    /\ analysis_pending = <<>>
    /\ costs = <<>>
    /\ choices = <<>>
    /\ ret = [op |-> "none"]
    /\ part = <<>>

NextExtract == ExtractBegin \/ ExtractStep \/ ExtractFinish

SpecExtract == InitExtract /\ [][NextExtract]_vars

\* A wider family: WideClasses classes, of which the last two are single
\* leaves and the others hold either one node of any shape or two nodes of
\* one child each.
WideClasses == 4

WideShapes == [cost : 0..MaxCost, children : SeqsUpTo(1..WideClasses, MaxArity)]

WideRows ==
    {<<sh>> : sh \in WideShapes}
        \cup {<<s1, s2>> : s1 \in {sh \in WideShapes : Len(sh.children) = 1},
                           s2 \in {sh \in WideShapes : Len(sh.children) = 1}}

WideLeaf(k) == <<[cost |-> k, children |-> <<>>]>>

InitWide ==
    /\ pc = "extract"
    /\ \E inner \in [1..(WideClasses - 2) -> WideRows],
          leaves \in [(WideClasses - 1)..WideClasses -> 0..MaxCost] :
          egraph = GraphOf([c \in 1..WideClasses |->
                               IF c \in DOMAIN inner THEN inner[c] ELSE WideLeaf(leaves[c])],
                           <<1>>)
    /\ analysis_pending = <<>>
    /\ costs = <<>>
    /\ choices = <<>>
    /\ ret = [op |-> "none"]
    /\ part = <<>>

SpecWide == InitWide /\ [][NextExtract]_vars

----------------------------------------------------------------------------
(* The extraction result: validation and cost accounting (extractor.hpp). *)

\* Cost is a double (extractor.hpp:19): a sum is rounded to the significand,
\* ties to even.  Costs are counted in whole units and MantissaBits stands for
\* the 53 bits of the significand, so that the integers below 2^MantissaBits
\* add exactly and larger sums round as they do in the program.
MantissaBits == 3

\* the spacing of the representable values at x
RECURSIVE Ulp(_)
Ulp(x) == IF x < 2^MantissaBits THEN 1 ELSE 2 * Ulp(x \div 2)

RoundCost(x) ==
    LET u  == Ulp(x)
        lo == (x \div u) * u
        hi == lo + u
    IN IF x = lo THEN x
       ELSE IF x - lo < hi - x THEN lo
       ELSE IF x - lo > hi - x THEN hi
       ELSE IF (lo \div u) % 2 = 0 THEN lo ELSE hi

\* operator+ on Cost
CostAdd(a, b) == RoundCost(a + b)

\* dag_cost, lines 202-205: total += kv.second over the map in its order
RECURSIVE CostTotal(_, _)
CostTotal(total, kvs) ==
    IF kvs = <<>> THEN total ELSE CostTotal(CostAdd(total, Head(kvs).v), Tail(kvs))

\* what an operation hands back: a value, or the exception it raised
Returned(v) == [err |-> "none", val |-> v]
Raised(e) == [err |-> e, val |-> <<>>]

\* cycle_dfs and the loop over a node's children.  st holds the status map,
\* the cycles found so far and the exception raised, if any.
RECURSIVE cycle_dfs(_, _, _, _)
RECURSIVE cycle_dfs_children(_, _, _, _)

\* the recorded status of a class: a class in progress is a cycle; a done one
\* is left alone
SeenAgain(st, class_id) ==
    IF st.status[class_id] = "Doing"
    THEN [st EXCEPT !.cycles = Append(@, class_id)]
    ELSE st

cycle_dfs(g, ch, class_id, st) ==
    IF st.err # "none" THEN st
    ELSE IF class_id \in DOMAIN st.status THEN SeenAgain(st, class_id)
    ELSE LET doing == [st EXCEPT !.status = (class_id :> "Doing") @@ @]
         IN IF ~MapHas(ch, class_id) THEN [doing EXCEPT !.err = "out_of_range"]
            ELSE IF ~HasNode(g, MapGet(ch, class_id))
            THEN [doing EXCEPT !.err = "runtime_error"]
            ELSE LET after == cycle_dfs_children(g, ch,
                                  NodeAt(g, MapGet(ch, class_id)).children, doing)
                 IN IF after.err # "none" THEN after
                    ELSE [after EXCEPT !.status = (class_id :> "Done") @@ @]

cycle_dfs_children(g, ch, children, st) ==
    IF children = <<>> \/ st.err # "none" THEN st
    ELSE cycle_dfs_children(g, ch, Tail(children), cycle_dfs(g, ch, Head(children), st))

\* find_cycles: the classes found in progress, or the exception of a lookup
find_cycles(g, ch, roots) ==
    LET st == cycle_dfs_children(g, ch, roots,
                  [status |-> <<>>, cycles |-> <<>>, err |-> "none"])
    IN IF st.err # "none" THEN Raised(st.err) ELSE Returned(st.cycles)

\* mutant: the roots are not tested
MissingRoots_None(ch, roots) == {}

\* check, lines 93-98: the roots without a choice
MissingRoots(ch, roots) == {i \in DOMAIN roots : ~MapHas(ch, roots[i])}

\* check, lines 106-113: the entries whose node is absent from the graph, and
\* those whose node declares another class
AbsentEntries(g, ch) == {i \in DOMAIN ch : ~HasNode(g, ch[i].v)}

\* mutant: the declared class of an entry's node is not compared
EclassMatches_Skipped(g, entry) == TRUE

\* line 110
EclassMatches(g, entry) == NodeAt(g, entry.v).eclass = entry.k

MismatchEntries(g, ch) ==
    {i \in DOMAIN ch : HasNode(g, ch[i].v) /\ ~EclassMatches(g, ch[i])}

\* check, lines 116-134: the walk over the dependencies of the roots
RECURSIVE DependencyWalk(_, _, _, _)
DependencyWalk(g, ch, todo, visited) ==
    IF todo = <<>> THEN "ok"
    ELSE LET cid  == todo[Len(todo)]
             rest == SubSeq(todo, 1, Len(todo) - 1)
         IN IF cid \in visited THEN DependencyWalk(g, ch, rest, visited)
            ELSE IF ~MapHas(ch, cid) THEN "missing_dependency"
            ELSE IF ~HasNode(g, MapGet(ch, cid)) THEN "runtime_error"
            ELSE DependencyWalk(g, ch,
                     rest \o NodeAt(g, MapGet(ch, cid)).children, visited \cup {cid})

\* check: "ok", or the first failure in the order the code tests
check(g, ch) ==
    LET cyc == find_cycles(g, ch, g.root_eclasses)
        bad == AbsentEntries(g, ch) \cup MismatchEntries(g, ch)
    IN IF MissingRoots(ch, g.root_eclasses) # {} THEN "missing_root"
       ELSE IF cyc.err # "none" THEN cyc.err
       ELSE IF cyc.val # <<>> THEN "cycle"
       ELSE IF bad # {}
       THEN (IF Min(bad) \in AbsentEntries(g, ch) THEN "runtime_error"
             ELSE "eclass_mismatch")
       ELSE DependencyWalk(g, ch, g.root_eclasses, {})

\* dag_cost: the worklist walk; costs_seen is the ordered map of the walk
RECURSIVE dag_walk(_, _, _, _)
dag_walk(g, ch, todo, costs_seen) ==
    IF todo = <<>> THEN Returned(CostTotal(0, costs_seen))
    ELSE LET cid  == todo[Len(todo)]
             rest == SubSeq(todo, 1, Len(todo) - 1)
         IN IF ~MapHas(ch, cid) THEN Raised("out_of_range")
            ELSE IF ~HasNode(g, MapGet(ch, cid)) THEN Raised("runtime_error")
            ELSE IF MapHas(costs_seen, cid) THEN dag_walk(g, ch, rest, costs_seen)
            ELSE LET node == NodeAt(g, MapGet(ch, cid))
                 IN dag_walk(g, ch, rest \o node.children,
                             MapInsert(costs_seen, cid, node.cost))

\* mutant: the roots are summed as listed and nothing below them
dag_cost_RootsOnly(g, ch, roots) ==
    Returned(CostTotal(0, [i \in DOMAIN roots |->
                              [k |-> roots[i],
                               v |-> IF MapHas(ch, roots[i])
                                     THEN NodeAt(g, MapGet(ch, roots[i])).cost ELSE 0]]))

\* mutant: only the first root is walked
dag_cost_FirstRoot(g, ch, roots) == dag_walk(g, ch, SubSeq(roots, 1, 1), <<>>)

dag_cost(g, ch, roots) == dag_walk(g, ch, roots, <<>>)

\* mutant: a node's children are left out of its tree cost
TreeInner_NoChildren(node_cost, children_cost) == node_cost

\* tree_cost_rec, line 299: a node's own cost plus that of its children
TreeInner(node_cost, children_cost) == CostAdd(node_cost, children_cost)

\* tree_cost_rec.  cost is the running total of the loop over roots; the
\* result is [cost, memo, err].  stack is the set of nodes whose call is in
\* progress: entering one of them again never returns (each call recurses
\* before it writes the memo), which ends in stack exhaustion.
RECURSIVE tree_cost_rec(_, _, _, _, _, _)
tree_cost_rec(g, ch, roots, memo, stack, cost) ==
    IF roots = <<>> THEN [cost |-> cost, memo |-> memo, err |-> "none"]
    ELSE IF ~MapHas(ch, Head(roots))
    THEN [cost |-> cost, memo |-> memo, err |-> "out_of_range"]
    ELSE LET root_node == MapGet(ch, Head(roots))
         IN IF root_node \in DOMAIN memo
            THEN tree_cost_rec(g, ch, Tail(roots), memo, stack,
                               CostAdd(cost, memo[root_node]))
            ELSE IF ~HasNode(g, root_node)
            THEN [cost |-> cost, memo |-> memo, err |-> "runtime_error"]
            ELSE IF root_node \in stack
            THEN [cost |-> cost, memo |-> memo, err |-> "stack_overflow"]
            ELSE LET node  == NodeAt(g, root_node)
                     below == tree_cost_rec(g, ch, node.children, memo,
                                            stack \cup {root_node}, 0)
                     inner == TreeInner(node.cost, below.cost)
                 IN IF below.err # "none" THEN below
                    ELSE tree_cost_rec(g, ch, Tail(roots),
                             IF root_node \in DOMAIN below.memo THEN below.memo
                             ELSE (root_node :> inner) @@ below.memo,
                             stack, CostAdd(cost, inner))

\* mutant: every class is counted once
tree_cost_PerClass(g, ch, roots) == dag_walk(g, ch, roots, <<>>)

tree_cost(g, ch, roots) ==
    LET r == tree_cost_rec(g, ch, roots, <<>>, {}, 0)
    IN IF r.err # "none" THEN Raised(r.err) ELSE Returned(r.cost)

\* the operations of a result, each on the graph and table of the state
Check ==
    /\ pc = "validate"
    /\ ret' = [op |-> "check", out |-> check(egraph, choices)]
    /\ UNCHANGED <<pc, egraph, analysis_pending, costs, choices, part>>

FindCycles ==
    /\ pc = "validate"
    /\ ret' = [op |-> "find_cycles",
               out |-> find_cycles(egraph, choices, egraph.root_eclasses)]
    /\ UNCHANGED <<pc, egraph, analysis_pending, costs, choices, part>>

TreeCost ==
    /\ pc = "account"
    /\ ret' = [op |-> "tree_cost",
               out |-> tree_cost(egraph, choices, egraph.root_eclasses)]
    /\ UNCHANGED <<pc, egraph, analysis_pending, costs, choices, part>>

DagCost ==
    /\ pc = "account"
    /\ ret' = [op |-> "dag_cost",
               out |-> dag_cost(egraph, choices, egraph.root_eclasses)]
    /\ UNCHANGED <<pc, egraph, analysis_pending, costs, choices, part>>

\* the bound on the calls of choose on one table
MaxChoose == 4

Choose ==
    /\ pc = "choose"
    /\ ret.calls < MaxChoose
    /\ \E class_id \in ClassIds, node_id \in ClassIds \X (1..2) :
          /\ choices' = choose(choices, class_id, node_id)
          /\ ret' = [op |-> "choose", class_id |-> class_id, node_id |-> node_id,
                     previous |-> IF MapHas(choices, class_id)
                                  THEN <<MapGet(choices, class_id)>> ELSE <<>>,
                     calls |-> ret.calls + 1]
    /\ UNCHANGED <<pc, egraph, analysis_pending, costs, part>>

\* Inputs of the result operations: graphs with one node per class, whose
\* child lists are nondecreasing, a root list, and a table that gives a class
\* no node, its own node, or the node of the next class.
NondecreasingLists ==
    {l \in ChildLists : \A i \in 1..(Len(l) - 1) : l[i] <= l[i + 1]}

MaxRoots == 2

RootLists == {r \in SeqsUpTo(ClassIds, MaxRoots) : r # <<>> /\ r[1] = 1}

TableChoices == {"none", "own", "next"}

TableOf(tab) ==
    LET entry(c) == [k |-> c,
                     v |-> IF tab[c] = "own" THEN <<c, 1>>
                           ELSE <<(c % NumClasses) + 1, 1>>]
    IN SelectSeq([c \in ClassIds |-> entry(c)], LAMBDA e : tab[e.k] # "none")

\* the tables of own nodes in which at most MaxMissing classes have no choice
MaxMissing == 1

SparseTables ==
    {tab \in [ClassIds -> {"none", "own"}] :
        Cardinality({c \in ClassIds : tab[c] = "none"}) <= MaxMissing}

\* the costs of the accounting inputs: exact ones and one that makes sums round
CostValues == {0, 1, 2^MantissaBits}

InitValidate ==
    /\ pc = "validate"
    /\ \E kids \in [ClassIds -> NondecreasingLists], roots \in RootLists,
          tab \in [ClassIds -> TableChoices] :
          /\ egraph = GraphOf([c \in ClassIds |-> <<[cost |-> 1, children |-> kids[c]]>>],
                              roots)
          /\ choices = TableOf(tab)
    /\ analysis_pending = <<>>
    /\ costs = <<>>
    /\ ret = [op |-> "none"]
    /\ part = <<>>

NextValidate == Check \/ FindCycles

SpecValidate == InitValidate /\ [][NextValidate]_vars

InitAccount ==
    /\ pc = "account"
    /\ \E kids \in [ClassIds -> NondecreasingLists], cost \in [ClassIds -> CostValues],
          roots \in RootLists, tab \in SparseTables :
          /\ egraph = GraphOf([c \in ClassIds |->
                                  <<[cost |-> cost[c], children |-> kids[c]]>>], roots)
          /\ choices = TableOf(tab)
    /\ analysis_pending = <<>>
    /\ costs = <<>>
    /\ ret = [op |-> "none"]
    /\ part = <<>>

NextAccount == TreeCost \/ DagCost

SpecAccount == InitAccount /\ [][NextAccount]_vars

InitChoose ==
    /\ pc = "choose"
    /\ egraph = GraphOf(<<>>, <<>>)
    /\ analysis_pending = <<>>
    /\ costs = <<>>
    /\ choices = <<>>
    /\ ret = [op |-> "none", calls |-> 0]
    /\ part = <<>>

NextChoose == Choose

SpecChoose == InitChoose /\ [][NextChoose]_vars

----------------------------------------------------------------------------
(* The tail of main (main.cpp:600-625): extract on the loaded graph with its *)
(* own roots, check of the result, then tree_cost and dag_cost.  An          *)
(* exception of check ends main before the costs are computed.               *)

\* main.cpp:603
MainCheck ==
    /\ pc = "extracted"
    /\ LET out == check(egraph, choices)
       IN /\ ret' = [op |-> "check", out |-> out]
          /\ pc' = IF out = "ok" THEN "checked" ELSE "failed"
    /\ UNCHANGED <<egraph, analysis_pending, costs, choices, part>>

\* main.cpp:621-622
MainCosts ==
    /\ pc = "checked"
    /\ ret' = [op |-> "costs",
               tree |-> tree_cost(egraph, choices, egraph.root_eclasses),
               dag |-> dag_cost(egraph, choices, egraph.root_eclasses)]
    /\ pc' = "done"
    /\ UNCHANGED <<egraph, analysis_pending, costs, choices, part>>

\* Inputs of the run: graphs of at most RunClasses classes with at most
\* RunNodes nodes each; a node is a leaf or has one child class, and its cost
\* is one of RunCosts (every total of two such costs is exact); one root.
RunClasses == 2

RunNodes == 2

RunCosts == {1, 3, 5}

RunShapes(n) == [cost : RunCosts, children : {<<>>} \cup {<<c>> : c \in 1..n}]

RunRows(n) == SeqsUpTo(RunShapes(n), RunNodes) \ {<<>>}

InitRun ==
    /\ pc = "extract"
    /\ \E n \in 1..RunClasses :
       \E rows \in [1..n -> RunRows(n)], r \in 1..n :
          egraph = GraphOf(rows, <<r>>)
    /\ analysis_pending = <<>>
    /\ costs = <<>>
    /\ choices = <<>>
    /\ ret = [op |-> "none"]
    /\ part = <<>>

NextRun == ExtractBegin \/ ExtractStep \/ ExtractFinish \/ MainCheck \/ MainCosts

SpecRun == InitRun /\ [][NextRun]_vars

----------------------------------------------------------------------------
(* EGraph as an object under construction (egraph_serialize.hpp:403-475):   *)
(* egraph gets the field classes_cache, <<>> for an empty optional and      *)
(* <<grouping>> for a filled one.  ret.first keeps what the first call of   *)
(* classes() on the instance returned.                                      *)

\* mutant: emplace replaces the node of a present key
Emplace_Replacing(inner_map, node_id, node) == MapPut(inner_map, node_id, node)

\* tsl::ordered_map::emplace (line 432)
Emplace(inner_map, node_id, node) == MapInsert(inner_map, node_id, node)

\* add_node, lines 428-438: [g, out]
add_node(g, node_id, node) ==
    LET inner_map == IF MapHas(g.nodes, node_id[1]) THEN MapGet(g.nodes, node_id[1])
                     ELSE <<>>
    IN [g   |-> [g EXCEPT !.nodes =
                    MapPut(@, node_id[1], Emplace(inner_map, node_id, node))],
        out |-> IF MapHas(inner_map, node_id) THEN Raised("runtime_error")
                ELSE Returned(<<>>)]

\* mutant: the cache is never taken
CacheHit_Never(classes_cache) == FALSE

\* line 456: classes_cache.has_value()
CacheHit(classes_cache) == classes_cache # <<>>

\* classes(), lines 455-475: [g, out]
classes(g) ==
    IF CacheHit(g.classes_cache)
    THEN [g |-> g, out |-> g.classes_cache[1]]
    ELSE [g |-> [g EXCEPT !.classes_cache = <<Classes(g)>>], out |-> Classes(g)]

\* the NodeIds and nodes given to add_node
MaxIdPart == 2

GraphIds == (1..MaxIdPart) \X (1..MaxIdPart)

GraphNodes == {NodeOf(c, 1, <<>>) : c \in 1..MaxIdPart}

AddNode ==
    /\ pc = "graph"
    /\ \E node_id \in GraphIds, node \in GraphNodes :
          LET r == add_node(egraph, node_id, node)
          IN /\ egraph' = r.g
             /\ ret' = [op |-> "add_node", node_id |-> node_id, node |-> node,
                        out |-> r.out, first |-> ret.first]
    /\ UNCHANGED <<pc, analysis_pending, costs, choices, part>>

ClassesCall ==
    /\ pc = "graph"
    /\ LET r == classes(egraph)
       IN /\ egraph' = r.g
          /\ ret' = [op |-> "classes", out |-> r.out,
                     first |-> IF ret.first = <<>> THEN <<r.out>> ELSE ret.first]
    /\ UNCHANGED <<pc, analysis_pending, costs, choices, part>>

\* EGraph(): no node, no root, no cached grouping
InitGraph ==
    /\ pc = "graph"
    /\ egraph = [nodes |-> <<>>, root_eclasses |-> <<>>, classes_cache |-> <<>>]
    /\ analysis_pending = <<>>
    /\ costs = <<>>
    /\ choices = <<>>
    /\ ret = [op |-> "none", first |-> <<>>]
    /\ part = <<>>

NextGraph == AddNode \/ ClassesCall

SpecGraph == InitGraph /\ [][NextGraph]_vars

----------------------------------------------------------------------------
(* remove_redundant_nodes (main.cpp:48-150) on the description `data`, held *)
(* in egraph.  The cost_func argument is not read.                          *)

\* mutant: the nodes are compared by the set of their children
FreqVec_Set(children) == Range(children)

\* lines 97-110: the sorted (child, multiplicity) pairs of a child list
FreqVec(children) ==
    [c \in Range(children) |-> Cardinality({i \in DOMAIN children : children[i] = c})]

\* lines 74-146 for one class: of the nodes with the same pairs the first in
\* the order of the class is kept and the others are erased
KeepFirst(inner_map) ==
    LET kept == {j \in DOMAIN inner_map :
                    \A i \in 1..(j - 1) :
                        FreqVec(inner_map[i].v.children) # FreqVec(inner_map[j].v.children)}
        order == SetToSortedSeq(kept)
    IN [i \in DOMAIN order |-> inner_map[order[i]]]

remove_redundant_nodes(nodes) ==
    [i \in DOMAIN nodes |-> [k |-> nodes[i].k, v |-> KeepFirst(nodes[i].v)]]

\* main.cpp:577
RemoveRedundant ==
    /\ pc = "dedup"
    /\ egraph' = [egraph EXCEPT !.nodes = remove_redundant_nodes(@)]
    /\ pc' = "deduped"
    /\ UNCHANGED <<analysis_pending, costs, choices, ret, part>>

\* The descriptions given to the pass: at most RunClasses classes, the first
\* with at most DedupNodes nodes and the others with one; child lists have at
\* most MaxArity entries in any order, repeats included, and costs are among
\* DedupCosts.
DedupNodes == 3

DedupCosts == {1, 3}

DedupShapes(n) == [cost : DedupCosts, children : SeqsUpTo(1..n, MaxArity)]

DedupRows(n) == SeqsUpTo(DedupShapes(n), DedupNodes) \ {<<>>}

InitDedup ==
    /\ pc = "dedup"
    /\ \E n \in 1..RunClasses :
       \E first \in DedupRows(n), rest \in [2..n -> DedupShapes(n)], r \in 1..n :
          egraph = GraphOf([c \in 1..n |-> IF c = 1 THEN first ELSE <<rest[c]>>], <<r>>)
    /\ analysis_pending = <<>>
    /\ costs = <<>>
    /\ choices = <<>>
    /\ ret = [op |-> "none"]
    /\ part = <<>>

NextDedup == RemoveRedundant

SpecDedup == InitDedup /\ [][NextDedup]_vars

----------------------------------------------------------------------------
(* egraph_partition (main.cpp:152-549).  egraph holds the description `data`;  *)
(* part holds the locals.  ClassId is an unsigned 32-bit value: max()-1 and    *)
(* max()-2-idx are written as their residues -2 and -3-idx.  assert is the     *)
(* one of <cassert>, which the sources leave enabled: a failed one aborts.     *)

PseudoRootClass == 0 - 2

\* factor = num/den; static_cast<size_t>(std::round(1.0f / factor))
partition_num(factor) == (2 * factor.den + factor.num) \div (2 * factor.num)

\* lines 160-186: the classes that are the child of some node
ParentKeys(nodes) ==
    UNION {UNION {Range(nodes[i].v[j].v.children) : j \in DOMAIN nodes[i].v} :
              i \in DOMAIN nodes}

\* line 174: a child class without nodes in the description
ChildMissing(nodes) ==
    \E c \in ParentKeys(nodes) : ~MapHas(nodes, c) \/ MapGet(nodes, c) = <<>>

\* lines 194-208: the declared class of every node whose class has no parent,
\* once per node
RootList(nodes) ==
    LET all == Flatten([i \in DOMAIN nodes |->
                           [j \in DOMAIN nodes[i].v |-> nodes[i].v[j].v.eclass]])
    IN SelectSeq(all, LAMBDA c : c \notin ParentKeys(nodes))

\* lines 216-240: the pseudo-root over several roots
WithPseudoRoot(nodes, root) ==
    MapPut(nodes, PseudoRootClass,
           <<[k |-> <<PseudoRootClass, 0>>, v |-> NodeOf(PseudoRootClass, 0, root)]>>)

\* mutant: the size test lets a graph of exactly partition_num classes through
NotEnough_Strict(size, k) == size < k

\* line 262
NotEnough(size, k) == size <= k

Failed(kind) == [part EXCEPT !.error = kind]

\* lines 153-276, up to the first iteration of the loop
PartitionBegin ==
    /\ pc = "partition"
    /\ LET nodes == egraph.nodes
           root  == RootList(nodes)
           mutable_nodes == IF Len(root) > 1 THEN WithPseudoRoot(nodes, root) ELSE nodes
           root1 == IF Len(root) > 1 THEN <<PseudoRootClass>> ELSE root
           k     == partition_num(part.factor)
           fail(kind) == /\ pc' = "failed"
                         /\ part' = Failed(kind)
       IN IF ChildMissing(nodes) THEN fail("child_not_found")
          ELSE IF NotEnough(Len(mutable_nodes), k) THEN fail("not_enough")
          ELSE IF root1 = <<>> THEN fail("crash")   \* root[0] of an empty vector
          ELSE /\ pc' = "bfs"
               /\ part' = [part EXCEPT !.mutable_nodes = mutable_nodes,
                                       !.partition_num = k,
                                       !.queue = <<root1[1]>>]
    /\ UNCHANGED <<egraph, analysis_pending, costs, choices, ret>>

\* tsl::ordered_set::insert
SetInsert(q, t) == IF t \in Range(q) THEN q ELSE Append(q, t)

\* lines 310-316 over the children of the nodes of a class: qv = [queue, visited]
RECURSIVE EnqueueChildren(_, _)
EnqueueChildren(qv, children) ==
    IF children = <<>> THEN qv
    ELSE EnqueueChildren(
             IF Head(children) \in qv.visited THEN qv
             ELSE [queue |-> Append(qv.queue, Head(children)),
                   visited |-> qv.visited \cup {Head(children)}],
             Tail(children))

\* mutant: a sealed bucket is not cleared
AfterSeal_Kept(current_subgraph) == current_subgraph

\* line 292: current_subgraph.clear()
AfterSeal(current_subgraph) == <<>>

\* line 290: current_count >= num, where num = size / partition_num
Full(current_count, size, k) == current_count * k >= size

\* lines 278-321: one iteration of the loop
BfsStep ==
    /\ pc = "bfs"
    /\ LET class_id == Head(part.queue)
           current  == SetInsert(part.current_subgraph, class_id)
           seal     == Full(part.current_count, Len(part.mutable_nodes), part.partition_num)
           sealed   == IF seal THEN Append(part.subgraphs, current) ELSE part.subgraphs
           p1       == [part EXCEPT !.queue = Tail(part.queue),
                                    !.subgraphs = sealed,
                                    !.current_subgraph =
                                        IF seal THEN AfterSeal(current) ELSE current,
                                    !.current_count = IF seal THEN 0 ELSE @]
       IN IF seal /\ Len(sealed) = part.partition_num
          THEN pc' = "collect" /\ part' = p1
          ELSE IF ~MapHas(egraph.nodes, class_id)
          THEN pc' = "failed" /\ part' = [p1 EXCEPT !.error = "class_not_found"]
          ELSE LET inner == MapGet(part.mutable_nodes, class_id)
                   qv    == EnqueueChildren(
                                [queue |-> p1.queue, visited |-> p1.visited],
                                Flatten([j \in DOMAIN inner |-> inner[j].v.children]))
               IN /\ part' = [p1 EXCEPT !.queue = qv.queue, !.visited = qv.visited,
                                        !.current_count = @ + Len(inner)]
                  /\ pc' = IF qv.queue = <<>> THEN "collect" ELSE "bfs"
    /\ UNCHANGED <<egraph, analysis_pending, costs, choices, ret>>

\* lines 323-336: the last bucket and the coverage assertion
Collect ==
    /\ pc = "collect"
    /\ LET subgraphs == IF part.current_subgraph # <<>>
                        THEN Append(part.subgraphs, part.current_subgraph)
                        ELSE part.subgraphs
       IN IF Range(Flatten(subgraphs)) = MapKeys(egraph.nodes)
          THEN pc' = "emit" /\ part' = [part EXCEPT !.subgraphs = subgraphs]
          ELSE pc' = "failed" /\ part' = [part EXCEPT !.subgraphs = subgraphs,
                                                      !.error = "abort"]
    /\ UNCHANGED <<egraph, analysis_pending, costs, choices, ret>>

\* lines 353-376: the nodes of the classes of a bucket
SubgraphMap(nodes, mutable_nodes, subgraph) ==
    LET kept == SelectSeq(subgraph, LAMBDA c : MapHas(nodes, c) /\ MapHas(mutable_nodes, c))
    IN [i \in DOMAIN kept |-> [k |-> kept[i], v |-> MapGet(mutable_nodes, kept[i])]]

\* mutant: no child is removed
Pruned_Kept(subgraph_map) == subgraph_map

\* lines 378-447: the children outside the bucket are removed
Pruned(subgraph_map) ==
    [i \in DOMAIN subgraph_map |->
        [k |-> subgraph_map[i].k,
         v |-> [j \in DOMAIN subgraph_map[i].v |->
                   [k |-> subgraph_map[i].v[j].k,
                    v |-> [subgraph_map[i].v[j].v EXCEPT !.children =
                              SelectSeq(@, LAMBDA c : MapHas(subgraph_map, c))]]]]]

\* lines 454-461: the classes of the bucket without a parent in the bucket
SubgraphRoot(subgraph_map) ==
    SelectSeq([i \in DOMAIN subgraph_map |-> subgraph_map[i].k],
              LAMBDA c : c \notin ParentKeys(Pruned(subgraph_map)))

\* lines 351-546 for bucket idx (counted from 0): the description written, or
\* <<>> when the assertion on its root fails
SubDescription(nodes, mutable_nodes, subgraph, idx) ==
    LET subgraph_map  == Pruned(SubgraphMap(nodes, mutable_nodes, subgraph))
        subgraph_root == SubgraphRoot(subgraph_map)
        key           == PseudoRootClass - 1 - idx
    IN IF Len(subgraph_root) > 1
       THEN <<[nodes |-> MapPut(subgraph_map, key,
                             <<[k |-> <<key, 0>>,
                                v |-> NodeOf(PseudoRootClass, 0, subgraph_root)]>>),
               root_eclasses |-> <<key>>]>>
       ELSE IF Len(subgraph_root) = 1
       THEN <<[nodes |-> subgraph_map, root_eclasses |-> subgraph_root]>>
       ELSE <<>>

\* one iteration of the loop of lines 351-546
Emit ==
    /\ pc = "emit"
    /\ Len(part.files) < Len(part.subgraphs)
    /\ LET idx  == Len(part.files)
           file == SubDescription(egraph.nodes, part.mutable_nodes,
                                  part.subgraphs[idx + 1], idx)
       IN IF file = <<>>
          THEN pc' = "failed" /\ part' = Failed("abort")
          ELSE pc' = "emit" /\ part' = [part EXCEPT !.files = Append(@, file[1])]
    /\ UNCHANGED <<egraph, analysis_pending, costs, choices, ret>>

\* line 548
PartitionReturn ==
    /\ pc = "emit"
    /\ Len(part.files) = Len(part.subgraphs)
    /\ pc' = "returned"
    /\ ret' = [op |-> "egraph_partition", out |-> Returned(part.partition_num)]
    /\ UNCHANGED <<egraph, analysis_pending, costs, choices, part>>

\* Inputs of egraph_partition: descriptions of PartClasses classes, or of one
\* less, with one node per class whose children are strictly increasing
\* classes among the PartClasses, at most one further node, a leaf of one of
\* the first MaxExtraClass classes, and a factor.
PartClasses == 4

PartLists ==
    {l \in SeqsUpTo(1..PartClasses, MaxArity) : \A i \in 1..(Len(l) - 1) : l[i] < l[i + 1]}

\* 1/factor = 1, 1.5, 2.5, 4
Factors == {[num |-> 1, den |-> 1], [num |-> 2, den |-> 3],
            [num |-> 2, den |-> 5], [num |-> 1, den |-> 4]}

\* the classes that may hold the further node
MaxExtraClass == 2

DataOf(n, kids, extra) ==
    GraphOf([c \in 1..n |-> <<[cost |-> 1, children |-> kids[c]]>> \o
                            (IF extra = c THEN <<[cost |-> 1, children |-> <<>>]>>
                             ELSE <<>>)],
            <<>>)

InitPart ==
    /\ pc = "partition"
    /\ \E n \in {PartClasses - 1, PartClasses}, factor \in Factors :
       \E kids \in [1..n -> PartLists], extra \in 0..MaxExtraClass :
          /\ egraph = DataOf(n, kids, extra)
          /\ part = [factor |-> factor, mutable_nodes |-> <<>>, partition_num |-> 0,
                     queue |-> <<>>, visited |-> {}, subgraphs |-> <<>>,
                     current_subgraph |-> <<>>, current_count |-> 0,
                     files |-> <<>>, error |-> "none"]
    /\ analysis_pending = <<>>
    /\ costs = <<>>
    /\ choices = <<>>
    /\ ret = [op |-> "none"]

NextPart == PartitionBegin \/ BfsStep \/ Collect \/ Emit \/ PartitionReturn

SpecPart == InitPart /\ [][NextPart]_vars

\* Inputs of main()'s call egraph_partition(data, 0.33f) (main.cpp:595) on
\* descriptions of ScenarioClasses classes with one leaf-or-inner node each:
\* the first ScenarioRoots classes are the candidate roots, every later class
\* is the child of one of them, and the first class may have other candidate
\* roots among its children.
ScenarioClasses == 9

ScenarioRoots == 3

\* 0.33f as a ratio
ScenarioFactor == [num |-> 33, den |-> 100]

ScenarioKids(owner, links) ==
    [c \in 1..ScenarioClasses |->
        IF c > ScenarioRoots THEN <<>>
        ELSE (IF c = 1 THEN SetToSortedSeq(links) ELSE <<>>) \o
             SetToSortedSeq({d \in (ScenarioRoots + 1)..ScenarioClasses : owner[d] = c})]

InitScenarioD ==
    /\ pc = "partition"
    /\ \E owner \in [(ScenarioRoots + 1)..ScenarioClasses -> 1..ScenarioRoots],
          links \in SUBSET (2..ScenarioRoots) :
          egraph = DataOf(ScenarioClasses, ScenarioKids(owner, links), 0)
    /\ part = [factor |-> ScenarioFactor, mutable_nodes |-> <<>>, partition_num |-> 0,
               queue |-> <<>>, visited |-> {}, subgraphs |-> <<>>,
               current_subgraph |-> <<>>, current_count |-> 0,
               files |-> <<>>, error |-> "none"]
    /\ analysis_pending = <<>>
    /\ costs = <<>>
    /\ choices = <<>>
    /\ ret = [op |-> "none"]

SpecScenarioD == InitScenarioD /\ [][NextPart]_vars

----------------------------------------------------------------------------
(* Vocabulary of the properties: the graph a choice table induces. *)

\* the child classes of the node chosen for c (none when c has no usable choice)
ChosenChildren(g, ch, c) ==
    IF MapHas(ch, c) /\ HasNode(g, MapGet(ch, c))
    THEN Range(NodeAt(g, MapGet(ch, c)).children) ELSE {}

RECURSIVE ReachFrom(_, _, _)
ReachFrom(g, ch, S) ==
    LET next == S \cup UNION {ChosenChildren(g, ch, c) : c \in S}
    IN IF next = S THEN S ELSE ReachFrom(g, ch, next)

\* the classes reached from c in one or more steps
Descendants(g, ch, c) == ReachFrom(g, ch, ChosenChildren(g, ch, c))

\* the class-level child relation of the whole graph, whatever is chosen
GraphChildren(g, c) ==
    UNION {Range(NodeAt(g, nid).children) :
              nid \in {x \in Range(AllNodeIds(g)) : NodeAt(g, x).eclass = c}}

----------------------------------------------------------------------------
(* Properties of the extractor. *)

TotalRank ==
    SumSeq([c \in ClassIds |-> PrevCost(costs, c)])

RankLess(t1, q1, t2, q2) == t1 < t2 \/ (t1 = t2 /\ q1 < q2)

\* C2: the worklist loop terminates.  Each iteration strictly lowers the rank
\* (the recorded totals, then the worklist length), which is a pair of
\* naturals, so only finitely many pops happen; with the worklist empty the
\* next step is extract's return.
C2_Terminates ==
    [][pc = "loop" =>
          IF analysis_pending = <<>>
          THEN pc' = "extracted"
          ELSE /\ pc' = "loop"
               /\ \A c \in DOMAIN costs' : costs'[c].total >= 0
               /\ RankLess(TotalRank', Len(analysis_pending'),
                           TotalRank, Len(analysis_pending))]_vars

\* C2 witness: a run in which a class's recorded cost set was replaced by a
\* better one (its parents were enqueued again) has returned.
C2_Witness ==
    /\ pc = "extracted"
    /\ \E c \in DOMAIN costs :
          /\ costs[c].choice[2] > 1
          /\ ~is_leaf(NodeAt(egraph, costs[c].choice))
          /\ is_leaf(NodeAt(egraph, <<c, 1>>))

\* C3: the returned table is closed under dependencies: each entry's node
\* declares the entry's class, and each child class of it has an entry.
C3_ResultClosed ==
    pc = "extracted" =>
        \A c \in MapKeys(choices) :
            /\ HasNode(egraph, MapGet(choices, c))
            /\ NodeAt(egraph, MapGet(choices, c)).eclass = c
            /\ ChosenChildren(egraph, choices, c) \subseteq MapKeys(choices)

\* C3 witness: a returned table with an interior choice while some class of
\* the graph obtained no entry.
C3_Witness ==
    /\ pc = "extracted"
    /\ \E c \in MapKeys(choices) : ChosenChildren(egraph, choices, c) # {}
    /\ MapKeys(choices) # ClassIds

----------------------------------------------------------------------------
(* Properties of the extraction result. *)

\* the classes the roots depend on, roots included
FromRoots(g, ch) == ReachFrom(g, ch, Range(g.root_eclasses))

AllRootsChosen(g, ch) == \A r \in Range(g.root_eclasses) : MapHas(ch, r)

ReachableAcyclic(g, ch) == \A c \in FromRoots(g, ch) : c \notin Descendants(g, ch, c)

ReachableChosen(g, ch) == \A c \in FromRoots(g, ch) : MapHas(ch, c)

EntriesOwnClass(g, ch) ==
    \A i \in DOMAIN ch : HasNode(g, ch[i].v) /\ NodeAt(g, ch[i].v).eclass = ch[i].k

C5_DagLeTree ==
    ret.op = "dag_cost" /\ check(egraph, choices) = "ok" =>
        LET tree == tree_cost(egraph, choices, egraph.root_eclasses)
        IN ret.out.err = "none" /\ tree.err = "none" /\ ret.out.val <= tree.val

\* C5, amended: on a table that check accepts and whose tree cost stays below
\* 2^MantissaBits, so that no sum of either walk is rounded, dag_cost returns
\* at most what tree_cost returns.
C5_DagLeTreeExact ==
    LET tree == tree_cost(egraph, choices, egraph.root_eclasses)
    IN ret.op = "dag_cost" /\ check(egraph, choices) = "ok"
       /\ tree.err = "none" /\ tree.val < 2^MantissaBits =>
          ret.out.err = "none" /\ ret.out.val <= tree.val

\* C5 witness: dag_cost returned strictly less than the exact tree cost of an
\* accepted table, a class being reached along two paths.
C5_Witness ==
    LET tree == tree_cost(egraph, choices, egraph.root_eclasses)
    IN /\ ret.op = "dag_cost" /\ check(egraph, choices) = "ok"
       /\ tree.err = "none" /\ tree.val < 2^MantissaBits
       /\ ret.out.err = "none" /\ ret.out.val < tree.val

\* C6 as stated: after choose(c, n2) on a table that held another node n1 for
\* c, the table maps c to n2 and holds exactly one entry for c.
C6_ChooseOverwrites ==
    ret.op = "choose" /\ ret.previous # <<>> /\ ret.previous # <<ret.node_id>> =>
        /\ MapGet(choices, ret.class_id) = ret.node_id
        /\ Cardinality({i \in DOMAIN choices : choices[i].k = ret.class_id}) = 1

\* C7 as stated: find_cycles returns the empty list exactly when check, on the
\* same roots, raises no cycle error.
C7_CyclesIffCheck ==
    ret.op = "find_cycles" =>
        (ret.out = Returned(<<>>) <=> check(egraph, choices) # "cycle")

----------------------------------------------------------------------------
(* Properties of the partitioner. *)

InputClasses == MapKeys(egraph.nodes)

\* the classes of the input that the i-th written description holds
EmittedClasses(i) == MapKeys(part.files[i].nodes) \cap InputClasses

\* C8: when egraph_partition has returned, the class sets of the descriptions
\* it wrote are pairwise disjoint and their union is the class set of the
\* input.
C8_BucketsPartition ==
    pc = "returned" /\ partition_num(part.factor) <= Cardinality(InputClasses) =>
        /\ \A i, j \in DOMAIN part.files :
              i # j => EmittedClasses(i) \cap EmittedClasses(j) = {}
        /\ UNION {EmittedClasses(i) : i \in DOMAIN part.files} = InputClasses

\* C8 witness: egraph_partition returned after writing more than one bucket.
C8_Witness ==
    /\ pc = "returned"
    /\ Len(part.files) >= 2
    /\ \A i \in DOMAIN part.files : EmittedClasses(i) # {}

\* C9 as stated: when egraph_partition has returned, it wrote round(1/factor)
\* descriptions and returned that number.
C9_EmitsK ==
    pc = "returned" =>
        /\ Len(part.files) = partition_num(part.factor)
        /\ ret.out = Returned(partition_num(part.factor))

\* the size test has been reached: the pass over the children did not raise
SizeTested == pc # "partition" /\ part.error # "child_not_found"

TestedSize ==
    Cardinality(InputClasses) + (IF Len(RootList(egraph.nodes)) > 1 THEN 1 ELSE 0)

ParentlessClasses == InputClasses \ ParentKeys(egraph.nodes)

\* egraph_partition has ended, by returning or by failing
PartitionEnded == pc \in {"returned", "failed"}

\* the i-th written description names exactly one root class
SingleRoot(i) == Len(part.files[i].root_eclasses) = 1

\* C11 as stated: on a description of nine classes of which three are
\* parentless roots, with factor 0.33, egraph_partition completes and writes
\* exactly three descriptions that partition the nine classes, each with a
\* single root.
C11_ScenarioDCompletes ==
    /\ PartitionEnded
    /\ Cardinality(InputClasses) = ScenarioClasses
    /\ Cardinality(ParentlessClasses) = ScenarioRoots
    /\ part.factor = ScenarioFactor
    => /\ pc = "returned"
       /\ Len(part.files) = 3
       /\ \A i, j \in DOMAIN part.files :
             i # j => EmittedClasses(i) \cap EmittedClasses(j) = {}
       /\ UNION {EmittedClasses(i) : i \in DOMAIN part.files} = InputClasses
       /\ \A i \in DOMAIN part.files : SingleRoot(i)

\* the classes of a written description that are the child of none of its nodes
FileRoots(file) == MapKeys(file.nodes) \ ParentKeys(file.nodes)

\* the assertion on the root of a bucket failed: every class of the input is
\* in a bucket and the emission loop aborted
RootAssertFailed ==
    /\ pc = "failed"
    /\ part.error = "abort"
    /\ Range(Flatten(part.subgraphs)) = InputClasses

\* C12 as stated: every bucket the traversal produces is written as a
\* description with exactly one root class, the only class of the description
\* that is the child of none of its nodes, buckets whose classes form a cycle
\* among themselves included.
C12_EveryBucketSingleRoot ==
    /\ ~RootAssertFailed
    /\ pc \in {"emit", "returned"} =>
          \A i \in DOMAIN part.files :
             /\ SingleRoot(i)
             /\ FileRoots(part.files[i]) = Range(part.files[i].root_eclasses)

\* the working copy of the description has been built and the size test passed
TraversalStarted == pc # "partition" /\ part.mutable_nodes # <<>>

\* the node of the global pseudo-root in the working copy
GlobalPseudoRoot == MapGet(part.mutable_nodes, PseudoRootClass)[1].v

\* C20 as stated: the global pseudo-root is in the working copy exactly when
\* more than one distinct class of the input has no parent; it has cost zero
\* and its children are the parentless classes, each exactly once; and the
\* traversal that starts from it goes on to the classes it names.
C20_PseudoRootIffSeveralRoots ==
    TraversalStarted =>
        /\ MapHas(part.mutable_nodes, PseudoRootClass) <=>
               Cardinality(ParentlessClasses) > 1
        /\ MapHas(part.mutable_nodes, PseudoRootClass) =>
               /\ GlobalPseudoRoot.cost = 0
               /\ Range(GlobalPseudoRoot.children) = ParentlessClasses
               /\ Len(GlobalPseudoRoot.children) = Cardinality(ParentlessClasses)
        /\ part.error # "class_not_found"

\* the number of times class c is met when the chosen nodes are unfolded from
\* the classes of list, every entry of a root list or child list counted; the
\* number of paths from list to c (on an acyclic table)
RECURSIVE Visits(_, _, _, _)
Visits(g, ch, list, c) ==
    IF list = <<>> THEN 0
    ELSE (IF Head(list) = c THEN 1 ELSE 0)
         + Visits(g, ch, NodeAt(g, MapGet(ch, Head(list))).children, c)
         + Visits(g, ch, Tail(list), c)

\* some class is reached from the roots along more than one path
SharedClass(g, ch) ==
    \E c \in FromRoots(g, ch) : Visits(g, ch, g.root_eclasses, c) > 1

\* every chosen node the roots depend on has a positive cost
PositiveCosts(g, ch) ==
    \A c \in FromRoots(g, ch) : NodeAt(g, MapGet(ch, c)).cost > 0

\* C19 as stated: on a table that check accepts, dag_cost and tree_cost
\* return the same value exactly when no class is reached from the roots
\* along more than one path.
C19_EqualIffSinglePath ==
    ret.op = "dag_cost" /\ check(egraph, choices) = "ok" =>
        LET tree == tree_cost(egraph, choices, egraph.root_eclasses)
        IN /\ ret.out.err = "none" /\ tree.err = "none"
           /\ ret.out.val = tree.val <=> ~SharedClass(egraph, choices)

\* C19, amended: on a table that check accepts, whose chosen nodes under the
\* roots all have a positive cost and whose tree cost stays below
\* 2^MantissaBits (no sum is rounded), dag_cost and tree_cost return the same
\* value exactly when no class is reached from the roots along more than one
\* path, counting every entry of the root list and of a child list.
C19_EqualIffSinglePathPositive ==
    LET tree == tree_cost(egraph, choices, egraph.root_eclasses)
    IN ret.op = "dag_cost" /\ check(egraph, choices) = "ok"
       /\ PositiveCosts(egraph, choices)
       /\ tree.err = "none" /\ tree.val < 2^MantissaBits =>
          /\ ret.out.err = "none"
          /\ ret.out.val = tree.val <=> ~SharedClass(egraph, choices)

\* C19 witness: on an accepted table with positive costs and an exact tree
\* cost, a class that is not a root is the child of two chosen nodes, and
\* dag_cost returned less than tree_cost.
C19_Witness ==
    LET tree == tree_cost(egraph, choices, egraph.root_eclasses)
    IN /\ ret.op = "dag_cost" /\ check(egraph, choices) = "ok"
       /\ PositiveCosts(egraph, choices)
       /\ tree.err = "none" /\ tree.val < 2^MantissaBits
       /\ \E c \in FromRoots(egraph, choices) \ Range(egraph.root_eclasses) :
             Cardinality({p \in FromRoots(egraph, choices) :
                             c \in ChosenChildren(egraph, choices, p)}) = 2
       /\ ret.out.err = "none" /\ ret.out.val < tree.val

----------------------------------------------------------------------------
(* Properties of the run: extract, check and the costs. *)

\* extract has returned
Extracted == pc \in {"extracted", "checked", "failed", "done"}

\* the shapes (cost, children) of the nodes of class c
ShapesOf(c) ==
    LET inner == MapGet(egraph.nodes, c)
    IN {[cost |-> inner[j].v.cost, children |-> inner[j].v.children] : j \in DOMAIN inner}

NodeCount(c) == Len(MapGet(egraph.nodes, c))

\* scenario B: root class R with X (cost 1, child C) and Y (cost 5, a leaf) in
\* either order, class C with one leaf of cost 1
ScenarioB(R, C) ==
    /\ InputClasses = {R, C} /\ R # C
    /\ egraph.root_eclasses = <<R>>
    /\ NodeCount(R) = 2
    /\ ShapesOf(R) = {[cost |-> 1, children |-> <<C>>], [cost |-> 5, children |-> <<>>]}
    /\ NodeCount(C) = 1
    /\ ShapesOf(C) = {[cost |-> 1, children |-> <<>>]}

\* C16: on scenario B extract chooses X for R, check accepts the result and
\* dag_cost of the root is 2, whichever of X and Y is listed first and
\* whichever of R and C is listed first.
C16_ScenarioB ==
    \A R, C \in InputClasses :
        ScenarioB(R, C) =>
            /\ Extracted =>
                  /\ MapHas(choices, R)
                  /\ NodeAt(egraph, MapGet(choices, R)).children = <<C>>
            /\ pc # "failed"
            /\ pc = "done" => ret.dag = Returned(2)

\* C16 witness: the run on scenario B is over, X being listed after Y.
C16_Witness ==
    \E R, C \in InputClasses :
        /\ ScenarioB(R, C)
        /\ pc = "done"
        /\ MapGet(choices, R) = <<R, 2>>

\* scenario C: the only node of class 1 has child 2 and the only node of class
\* 2 has child 1; the root is one of them
ScenarioC ==
    /\ InputClasses = {1, 2}
    /\ NodeCount(1) = 1 /\ NodeCount(2) = 1
    /\ NodeAt(egraph, <<1, 1>>).children = <<2>>
    /\ NodeAt(egraph, <<2, 1>>).children = <<1>>

\* C17: on scenario C the worklist of extract is empty from the start, the
\* returned table has no entry, and check fails on the root without a choice.
C17_ScenarioC ==
    ScenarioC =>
        /\ pc = "loop" => analysis_pending = <<>>
        /\ Extracted => choices = <<>>
        /\ pc \notin {"checked", "done"}
        /\ pc = "failed" => ret.out = "missing_root"

\* C17 witness: check has failed on the result of scenario C.
C17_Witness ==
    /\ ScenarioC
    /\ pc = "failed"
    /\ ret.op = "check"

\* every node of class c is a leaf
AllLeaves(c) == \A sh \in ShapesOf(c) : sh.children = <<>>

LeastCost(c) == Min({sh.cost : sh \in ShapesOf(c)})

\* scenario A: a single class with one leaf of cost 3, the sole root
ScenarioA ==
    /\ InputClasses = {1}
    /\ NodeCount(1) = 1
    /\ ShapesOf(1) = {[cost |-> 3, children |-> <<>>]}
    /\ egraph.root_eclasses = <<1>>

\* C18: when extract has returned, a class all of whose nodes are leaves has a
\* chosen node of the least cost among its nodes and a recorded total equal to
\* that cost; on scenario A check accepts and tree_cost and dag_cost are 3.
C18_LeafClasses ==
    /\ Extracted =>
          \A c \in InputClasses :
              AllLeaves(c) =>
                  /\ MapHas(choices, c)
                  /\ HasNode(egraph, MapGet(choices, c))
                  /\ nid_to_cid(egraph, MapGet(choices, c)) = c
                  /\ NodeAt(egraph, MapGet(choices, c)).cost = LeastCost(c)
                  /\ costs[c].total = LeastCost(c)
    /\ ScenarioA =>
          /\ pc # "failed"
          /\ pc = "done" => ret.tree = Returned(3) /\ ret.dag = Returned(3)

\* C18 witness: the run is over on a graph with a class of two leaves, the
\* cheaper one listed second and chosen, next to a class with an inner node.
C18_Witness ==
    /\ pc = "done"
    /\ \E c \in InputClasses :
          /\ AllLeaves(c)
          /\ NodeCount(c) = 2
          /\ MapGet(choices, c) = <<c, 2>>
          /\ NodeAt(egraph, <<c, 1>>).cost > NodeAt(egraph, <<c, 2>>).cost
    /\ \E d \in InputClasses : ~AllLeaves(d)

----------------------------------------------------------------------------
(* Properties of the graph object. *)

\* C14: every call of classes() returns the grouping that the first call on
\* the instance returned, whatever add_node inserted in between.
C14_ClassesCached ==
    ret.op = "classes" => ret.out = ret.first[1]

\* C14 witness: classes() returned a grouping that is no longer the grouping
\* of the nodes, a node having been added after the first call.
C14_Witness ==
    /\ ret.op = "classes"
    /\ ret.out # Classes(egraph)

\* C15: add_node raises its duplicate-node error exactly when a node with the
\* given NodeId is present; then the node map is left as it was; otherwise
\* the node is inserted under the id and every other node is kept.
C15_AddNodeDuplicate ==
    [][ret'.op = "add_node" =>
          LET node_id == ret'.node_id
          IN IF HasNode(egraph, node_id)
             THEN /\ ret'.out = Raised("runtime_error")
                  /\ egraph'.nodes = egraph.nodes
             ELSE /\ ret'.out = Returned(<<>>)
                  /\ HasNode(egraph', node_id)
                  /\ NodeAt(egraph', node_id) = ret'.node
                  /\ Range(AllNodeIds(egraph')) = Range(AllNodeIds(egraph)) \cup {node_id}
                  /\ \A other \in Range(AllNodeIds(egraph)) :
                        NodeAt(egraph', other) = NodeAt(egraph, other)]_vars

\* C15 witness: add_node was refused for an id whose node differs from the
\* one given, next to an accepted insertion into the same class.
C15_Witness ==
    /\ ret.op = "add_node"
    /\ ret.out = Raised("runtime_error")
    /\ NodeAt(egraph, ret.node_id) # ret.node
    /\ Len(MapGet(egraph.nodes, ret.node_id[1])) = 2

----------------------------------------------------------------------------
(* Properties of remove_redundant_nodes. *)

\* the table that gives class nodes[i].k its pick[i]-th node, or no node when
\* pick[i] = 0
TableOfPick(nodes, pick) ==
    LET all == [i \in DOMAIN nodes |->
                   [k |-> nodes[i].k,
                    v |-> IF pick[i] = 0 THEN <<>> ELSE nodes[i].v[pick[i]].k]]
    IN SelectSeq(all, LAMBDA e : e.v # <<>>)

\* the choice tables of g that check accepts: every root has a choice, no
\* cycle, every dependency chosen
ValidTables(g) ==
    LET picks == {pick \in [DOMAIN g.nodes -> 0..DedupNodes] :
                     \A i \in DOMAIN g.nodes : pick[i] <= Len(g.nodes[i].v)}
    IN {ch \in {TableOfPick(g.nodes, pick) : pick \in picks} : check(g, ch) = "ok"}

\* the least dag_cost over the valid tables, COST_INFINITY when there is none
MinDagCost(g) ==
    LET totals == {dag_cost(g, ch, g.root_eclasses).val : ch \in ValidTables(g)}
    IN IF totals = {} THEN COST_INFINITY ELSE Min(totals)

\* C13 as stated: the least DAG cost over the valid acyclic choice tables that
\* cover the roots is the same before and after remove_redundant_nodes.
C13_DedupKeepsMinDagCost ==
    [][pc = "dedup" /\ pc' = "deduped" =>
          MinDagCost(egraph') = MinDagCost(egraph)]_vars

----------------------------------------------------------------------------
(* Properties of the written descriptions.  to_json (egraph_serialize.hpp:  *)
(* 298-327) writes a node under the key of its class and the index of its   *)
(* NodeId, with its eclass, children and cost fields as they are.           *)

\* the nodes [k, v] of a description, whatever class they are stored under
FileNodes(file) ==
    UNION {{[key |-> file.nodes[i].k, k |-> file.nodes[i].v[j].k, v |-> file.nodes[i].v[j].v] :
               j \in DOMAIN file.nodes[i].v} : i \in DOMAIN file.nodes}

\* C21 as stated: in every written description every node, a per-partition
\* pseudo-root included, declares the class of its NodeId, which is the key it
\* is stored under, and the listed root is a class of the grouping classes()
\* computes for the description.
C21_FilesDeclareOwnClass ==
    \A i \in DOMAIN part.files :
        /\ \A n \in FileNodes(part.files[i]) :
              n.v.eclass = n.k[1] /\ n.k[1] = n.key
        /\ \A r \in Range(part.files[i].root_eclasses) :
              MapHas(Classes(part.files[i]), r)

\* C22: in every written description every child of every node is a key of
\* the description, and a node of the input keeps its cost and those of its
\* children that are keys of the description, in their order.
C22_FilesPruned ==
    \A i \in DOMAIN part.files :
        \A n \in FileNodes(part.files[i]) :
            /\ Range(n.v.children) \subseteq MapKeys(part.files[i].nodes)
            /\ n.key \in InputClasses =>
                  /\ n.v.cost = NodeAt(egraph, n.k).cost
                  /\ n.v.children =
                        SelectSeq(NodeAt(egraph, n.k).children,
                                  LAMBDA c : MapHas(part.files[i].nodes, c))

\* C22 witness: egraph_partition returned after writing a node that lost some
\* of its children and kept others, and a description with a pseudo-root.
C22_Witness ==
    /\ pc = "returned"
    /\ \E i \in DOMAIN part.files :
          \E n \in FileNodes(part.files[i]) :
              /\ n.key \in InputClasses
              /\ 0 < Len(n.v.children)
              /\ Len(n.v.children) < Len(NodeAt(egraph, n.k).children)
    /\ \E i \in DOMAIN part.files :
          \E n \in FileNodes(part.files[i]) : n.key \notin InputClasses

\* C30 as stated: when egraph_partition has failed, it has written no
\* description.
C30_AllOrNothing ==
    pc = "failed" => part.files = <<>>

\* the number of times class c is listed in a child list
ChildCount(children, c) == Cardinality({i \in DOMAIN children : children[i] = c})

\* two child lists name the same classes the same number of times
SameMultiset(a, b) ==
    \A c \in Range(a) \cup Range(b) : ChildCount(a, c) = ChildCount(b, c)

\* the j-th node of a class is the first of the class with its child multiset
FirstOfItsKind(inner_map, j) ==
    \A i \in 1..(j - 1) :
        ~SameMultiset(inner_map[i].v.children, inner_map[j].v.children)

\* C23: after remove_redundant_nodes every class is still there with, for each
\* child multiset that occurred among its nodes, the first node that had it
\* and no other node; the surviving nodes are unchanged and in their order,
\* and so is the root list.
C23_DedupKeepsFirstOfEach ==
    [][pc = "dedup" /\ pc' = "deduped" =>
          /\ egraph'.root_eclasses = egraph.root_eclasses
          /\ DOMAIN egraph'.nodes = DOMAIN egraph.nodes
          /\ \A i \in DOMAIN egraph.nodes :
                LET before == egraph.nodes[i].v
                    after  == egraph'.nodes[i].v
                IN /\ egraph'.nodes[i].k = egraph.nodes[i].k
                   /\ after # <<>>
                   /\ Range(after) =
                         {before[j] : j \in {x \in DOMAIN before : FirstOfItsKind(before, x)}}
                   /\ \A a, b \in DOMAIN after :
                         a # b => ~SameMultiset(after[a].v.children, after[b].v.children)
                   /\ \A a, b \in DOMAIN after :
                         a < b => \E x, y \in DOMAIN before :
                                     x < y /\ before[x] = after[a] /\ before[y] = after[b]
      ]_vars

\* C23 witness: the pass has removed the second of the three nodes of a class
\* and kept the first and the third, which list the same child a different
\* number of times.
C23_Witness ==
    /\ pc = "deduped"
    /\ \E c \in InputClasses :
          /\ NodeCount(c) = 2
          /\ HasNode(egraph, <<c, 1>>) /\ HasNode(egraph, <<c, 3>>)
          /\ Range(NodeAt(egraph, <<c, 1>>).children) = Range(NodeAt(egraph, <<c, 3>>).children)

----------------------------------------------------------------------------
(* Further properties of the extraction result. *)

\* some class that is not a root and that the roots depend on has no choice
DependencyMissing(g, ch) ==
    \E c \in FromRoots(g, ch) \ Range(g.root_eclasses) : ~MapHas(ch, c)

\* C26 as stated: when every root has a choice and a class the roots depend
\* on, not a root itself, has none, check fails with the missing-dependency
\* error of its own walk.
C26_MissingDependencyTyped ==
    /\ ret.op = "check"
    /\ AllRootsChosen(egraph, choices)
    /\ DependencyMissing(egraph, choices)
    => ret.out = "missing_dependency"

\* the tree cost by its definition, without a memo: over the list, in its
\* order, the cost of the chosen node plus the tree cost of its child list
RECURSIVE TreeUnmemo(_, _, _, _)
TreeUnmemo(g, ch, list, cost) ==
    IF list = <<>> THEN cost
    ELSE LET node == NodeAt(g, MapGet(ch, Head(list)))
         IN TreeUnmemo(g, ch, Tail(list),
                       CostAdd(cost, CostAdd(node.cost, TreeUnmemo(g, ch, node.children, 0))))

\* C27: on a table that check accepts, tree_cost returns the value of the
\* definition without a memo, every listing of a class among the roots and the
\* children counted.
C27_TreeCostUnmemoized ==
    ret.op = "tree_cost" /\ check(egraph, choices) = "ok" =>
        ret.out = Returned(TreeUnmemo(egraph, choices, egraph.root_eclasses, 0))

\* C27 witness: tree_cost returned on an accepted table in which a class of
\* positive cost is listed more than once, its value above that of dag_cost.
C27_Witness ==
    /\ ret.op = "tree_cost" /\ check(egraph, choices) = "ok"
    /\ SharedClass(egraph, choices)
    /\ ret.out.err = "none"
    /\ ret.out.val > dag_cost(egraph, choices, egraph.root_eclasses).val

\* every class the roots depend on has a choice, a node of the graph
ClosedFromRoots(g, ch) ==
    \A c \in FromRoots(g, ch) : MapHas(ch, c) /\ HasNode(g, MapGet(ch, c))

\* the orders in which the classes of S can be listed once each
Orderings(S) ==
    {o \in [1..Cardinality(S) -> S] : \A i, j \in DOMAIN o : i # j => o[i] # o[j]}

----------------------------------------------------------------------------
(* Further properties of the extractor. *)

\* C24 as stated: when extract has returned, the classes named by the
\* recorded cost map of a class of the result are the class itself and the
\* classes it reaches through the chosen nodes of the result.
C24_CostMapIsReach ==
    pc = "extracted" =>
        \A c \in MapKeys(choices) :
            DOMAIN costs[c].costs = {c} \cup Descendants(egraph, choices, c)

\* the nodes that list class c among their children
ParentNodes(g, c) ==
    {nid \in Range(AllNodeIds(g)) : c \in Range(NodeAt(g, nid).children)}

\* the worklist q2 is q1 followed by the nodes of S that q1 lacks, once each
ExtendedBy(q2, q1, S) ==
    /\ Len(q2) >= Len(q1)
    /\ SubSeq(q2, 1, Len(q1)) = q1
    /\ Range(q2) = Range(q1) \cup S
    /\ Len(q2) = Cardinality(Range(q1) \cup S)

\* C25: in every iteration of the loop a recorded total is finite and no
\* recorded cost set changes but that of the class of the popped node; that
\* one is replaced exactly when all children of the node have a cost set and
\* the candidate's total is strictly below the recorded one (COST_INFINITY
\* when there is none), and then every parent node of the class is in the
\* worklist; otherwise the cost sets are unchanged and the worklist has lost
\* the popped node only.
C25_StrictImprovement ==
    [][pc = "loop" /\ pc' = "loop" =>
          LET node_id  == Head(analysis_pending)
              class_id == nid_to_cid(egraph, node_id)
              prev     == IF class_id \in DOMAIN costs THEN costs[class_id].total
                          ELSE COST_INFINITY
              ready    == \A c \in Range(NodeAt(egraph, node_id).children) :
                              c \in DOMAIN costs
              cand     == calculate_cost_set(egraph, node_id, costs, prev)
          IN /\ \A c \in DOMAIN costs' : costs'[c].total < COST_INFINITY
             /\ \A c \in DOMAIN costs :
                   /\ c \in DOMAIN costs'
                   /\ costs'[c] # costs[c] => c = class_id /\ costs'[c].total < costs[c].total
             /\ IF ready /\ cand.total < prev
                THEN /\ class_id \in DOMAIN costs'
                     /\ costs'[class_id] = cand
                     /\ ExtendedBy(analysis_pending', Tail(analysis_pending),
                                   ParentNodes(egraph, class_id))
                ELSE /\ costs' = costs
                     /\ analysis_pending' = Tail(analysis_pending)]_vars

\* C25 witness: a class has a recorded cost set chosen from its second or a
\* later node while its first node is a leaf, so an earlier record was
\* replaced, and a class without a record remains.
C25_Witness ==
    /\ pc = "loop"
    /\ \E c \in DOMAIN costs :
          /\ costs[c].choice[2] > 1
          /\ is_leaf(NodeAt(egraph, <<c, 1>>))
          /\ costs[c].total < NodeAt(egraph, <<c, 1>>).cost
    /\ DOMAIN costs # ClassIds

\* the classes with a node that declares them, does not list them as a child
\* and has all its children in S
OneStep(g, S) ==
    {c \in MapKeys(Classes(g)) :
        \E nid \in Range(MapGet(Classes(g), c)) :
            /\ c \notin Range(NodeAt(g, nid).children)
            /\ Range(NodeAt(g, nid).children) \subseteq S}

\* the least set closed under OneStep
RECURSIVE Derivable(_, _)
Derivable(g, S) ==
    IF OneStep(g, S) \subseteq S THEN S ELSE Derivable(g, S \cup OneStep(g, S))

\* C29: when extract has returned, the classes of the result are the classes
\* of the least set S in which a class is as soon as one of its nodes, not
\* listing the class itself, has all its children in S.
C29_EntriesAreDerivable ==
    pc = "extracted" => MapKeys(choices) = Derivable(egraph, {})

\* C29 witness: extract returned a table with the entry of a class whose first
\* node lists the class itself, and without an entry for another class.
C29_Witness ==
    /\ pc = "extracted"
    /\ \E c \in MapKeys(choices) : c \in Range(NodeAt(egraph, <<c, 1>>).children)
    /\ MapKeys(choices) # {}
    /\ MapKeys(choices) # ClassIds

====
